---- MODULE Spec2Model ----
(***************************************************************************)
(* Volunteer check-in and live dashboard of the event coordination tool.   *)
(*                                                                         *)
(* The data service (volunteer_signups, volunteer_positions, events) is    *)
(* the shared store.  CheckInPage sessions (one per page load) and the     *)
(* EventsOverviewPage dashboard are clients of it.  Every data-service     *)
(* call is asynchronous: a request is sent, the service handles it, and    *)
(* the response is delivered to the client in a later step.                *)
(***************************************************************************)
EXTENDS Integers, Sequences, FiniteSets, TLC

\* ------------------------------------------------------------------ bounds
MaxSignups == 2
MaxDashIssues == 2
MaxLookups == 1
MaxFeedIssues == 102
MaxFeedNotifications == 1
MaxSyncIssues == 1
IntervalUnits == 2
MaxTimerIssues == 4
MaxNotifyLookups == 2
MaxNotifyIssues == 2

\* ------------------------------------------------------- program constants
QueryRetry == 3
FeedCapacity == 100
EarthRadius == 6371000
NearThreshold == 200
PiE4 == 31416
NewPositionFilled == 0

\* ------------------------------------------------------------ small domains
Sessions == {"a"}
PositionIds == {"p1", "p2"}
NoPositionId == "none"
UnknownPositionId == "px"
UrlPositionIds == PositionIds \cup {UnknownPositionId, NoPositionId}
StartTimes == {1, 2}
NoSelection == 0
EventIds == {"e1", "e2"}
UnknownEventId == "ex"
NoEventId == "null"
EventNames == {"5K Run", "Gala"}
EventOf == [p \in PositionIds |-> IF p = "p1" THEN "e1" ELSE "e2"]
PositionName == [p \in PositionIds |-> IF p = "p1" THEN "Water Station" ELSE "Gate"]
PositionOrder == <<"p1", "p2">>
Needed == [p \in PositionIds |-> 2]
FilledChoices == [p \in PositionIds |-> IF p = "p1" THEN {1, 2} ELSE {1, 3}]
Undefined == "undefined"

\* latitudes and longitudes are counted in units of 0.0001 degree
NoLocation == [null |-> TRUE]
Null == [null |-> TRUE]
Num(n) == [null |-> FALSE, value |-> n]
Coordinates(lat, lng) == [latitude |-> lat, longitude |-> lng]
Location(lat, lng) == [lat |-> lat, lng |-> lng]

\* ------------------------------------------------------------------- state
VARIABLES
    rows,               \* volunteer_signups table: id (index) -> row
    mounted,            \* session -> CheckInPage is mounted
    positionId,         \* session -> searchParams.get('position')
    geo,                \* session -> "closed" | "pending" (a getCurrentPosition
                        \* callback is outstanding) | "settled" (none is)
    isLoading,          \* session -> isLoading state
    userLocation,       \* session -> NoLocation or [lat, lng]
    locationError,      \* session -> locationError is set
    selectedVolunteer,  \* session -> selected signup id, NoSelection for ''
    posQuery,           \* session -> position query [status, failureCount, loaded, req, error]
    volQuery,           \* session -> volunteers query [status, failureCount, data, req, result]
    mutation,           \* session -> checkInMutation [st, id]
    succeeded,          \* session -> ids whose onSuccess ran in this session
    toast,              \* session -> the last toast of the page load: "none",
                        \* "invalid", "success" or "error"
    applied,            \* ids whose arrival update the service has applied
    eventName,          \* events table: id -> name
    filled,             \* volunteer_positions table: id -> filled
    coordinates,        \* volunteer_positions table: id -> [latitude, longitude]
    dashMounted,        \* EventsOverviewPage is mounted
    selectedEventId,    \* selectedEventId state
    urlEventId,         \* searchParams.get('eventId') of the dashboard's URL
    eventsLoaded,       \* the events query holds data
    loadedKeys,         \* selections whose ['positions', key] query holds data
    lookups,            \* INSERT handlers awaiting their position lookup, each with
                        \* the selection it closed over and its setup: "live" (the
                        \* effect that registered it is the current one), "stale"
                        \* (that effect was cleaned up), "gone" (the page unmounted)
    issues,             \* issues state: the feed, most recent first
    appended,           \* every issue passed to addIssue, in call order
    lastEvent,          \* the dashboard's last step: "tick", "resolved" or "unresolved"
                        \* (a handler's lookup answered), "UPDATE" or "DELETE" (a
                        \* notification of that event type was handled), "other"
    lastBatch,          \* how many issues that step passed to addIssue
    registered          \* what the issues effect has registered and not torn
                        \* down: the time since the start or the last firing of
                        \* every live setInterval, and the number of subscribed
                        \* channels

storeVars == <<rows, applied>>
sessVars == <<mounted, positionId, geo, isLoading, userLocation, locationError,
              selectedVolunteer, posQuery, volQuery, mutation, succeeded, toast>>
dashVars == <<eventName, filled, coordinates, dashMounted, selectedEventId, urlEventId,
              eventsLoaded, loadedKeys, lookups, issues, appended, lastEvent, lastBatch,
              registered>>
vars == <<storeVars, sessVars, dashVars>>

\* ------------------------------------------------------------ data service
SignupIds == DOMAIN rows

Row(pid, start) == [position_id |-> pid, start_time |-> start, arrived |-> FALSE]

\* a counter-like update: the flag is flipped instead of set
UpdateArrivedToggle(table, id) ==
    [i \in DOMAIN table |->
        IF i = id THEN [table[i] EXCEPT !.arrived = ~@] ELSE table[i]]

\* .update({ arrived: true }).eq('id', volunteerId)
UpdateArrived(table, id) ==
    [i \in DOMAIN table |->
        IF i = id THEN [table[i] EXCEPT !.arrived = TRUE] ELSE table[i]]

\* the query without .eq('arrived', false)
EligibleIdsAnyArrived(table, pid) ==
    {i \in DOMAIN table : table[i].position_id = pid}

\* .eq('position_id', positionId).eq('arrived', false)
EligibleIds(table, pid) ==
    {i \in DOMAIN table : table[i].position_id = pid /\ ~table[i].arrived}

Range(seq) == {seq[i] : i \in DOMAIN seq}

SeqsOver(S) ==
    {q \in [1..Cardinality(S) -> S] : Range(q) = S}

\* .order('start_time', { ascending: true }): rows of equal start_time come in
\* whatever order the service produces
EligibleLists(table, pid) ==
    {q \in SeqsOver(EligibleIds(table, pid)) :
        \A i, j \in DOMAIN q :
            i < j => table[q[i]].start_time <= table[q[j]].start_time}

\* ------------------------------------------------------------ CheckInPage
IdleQuery ==
    [status |-> "idle", failureCount |-> 0, loaded |-> FALSE, req |-> "none",
     error |-> "none"]
IdleVolunteers ==
    [status |-> "idle", failureCount |-> 0, loaded |-> FALSE, data |-> <<>>,
     req |-> "none", result |-> <<>>]
IdleMutation == [st |-> "idle", id |-> NoSelection]

\* a page that never waits for its queries
QueryLoadingNever(q) == FALSE

\* the query's isLoading: no data yet and the first fetch has not settled
QueryLoading(q) == q.status = "loading"
QueryError(q) == q.status = "error"

\* a page that renders the list without regard to the position lookup
ViewWithoutLookup(s) ==
    IF ~mounted[s] THEN "Closed"
    ELSE IF QueryLoading(volQuery[s]) \/ isLoading[s] THEN "Loading"
    ELSE IF QueryError(volQuery[s]) THEN "Error"
    ELSE IF volQuery[s].loaded /\ Len(volQuery[s].data) > 0
        THEN "AwaitingSelection"
    ELSE "NoEligibleVolunteers"

\* what the page renders, in the order of its early returns
View(s) ==
    IF ~mounted[s] THEN "Closed"
    ELSE IF QueryLoading(posQuery[s]) \/ QueryLoading(volQuery[s]) \/ isLoading[s]
        THEN "Loading"
    ELSE IF QueryError(posQuery[s]) \/ QueryError(volQuery[s]) THEN "Error"
    ELSE IF ~posQuery[s].loaded THEN "PositionNotFound"
    ELSE IF volQuery[s].loaded /\ Len(volQuery[s].data) > 0
        THEN "AwaitingSelection"
    ELSE "NoEligibleVolunteers"

\* data of the ['position', positionId] query, undefined until the lookup
\* has delivered the row
PositionData(s) ==
    IF posQuery[s].loaded
    THEN [defined |-> TRUE,
          latitude |-> coordinates[positionId[s]].latitude,
          longitude |-> coordinates[positionId[s]].longitude]
    ELSE [defined |-> FALSE, latitude |-> Null, longitude |-> Null]

\* !x of a number that may be null or undefined
Falsy(x) == x.null \/ x.value = 0

Abs(x) == IF x < 0 THEN 0 - x ELSE x

\* millimetres of arc per unit of angle: R * (Math.PI/180) for 0.0001 degree
UnitArc == ((EarthRadius \div 1000) * PiE4) \div 18000

\* a distance that keeps the sign of the differences
calculateDistanceSigned(lat1, lon1, lat2, lon2) ==
    CASE lon1 = lon2 -> (lat2 - lat1) * UnitArc
      [] lat1 = 0 /\ lat2 = 0 -> (lon2 - lon1) * UnitArc

\* R * c in millimetres.  With a = sin^2(dphi/2) + cos(phi1) cos(phi2)
\* sin^2(dlambda/2) and c = 2 atan2(sqrt(a), sqrt(1 - a)), c is the angle
\* |dphi| for two points of one meridian and |dlambda| for two points of the
\* equator; the function is applied on these arcs only.
calculateDistance(lat1, lon1, lat2, lon2) ==
    CASE lon1 = lon2 -> Abs(lat2 - lat1) * UnitArc
      [] lat1 = 0 /\ lat2 = 0 -> Abs(lon2 - lon1) * UnitArc

\* a gate that blocks when it cannot measure
isNearPositionStrict(s) ==
    LET position == PositionData(s) IN
    /\ userLocation[s] # NoLocation
    /\ ~Falsy(position.latitude) /\ ~Falsy(position.longitude)
    /\ calculateDistance(userLocation[s].lat, userLocation[s].lng,
                         position.latitude.value, position.longitude.value)
           <= NearThreshold * 1000

\* isNearPosition()
isNearPosition(s) ==
    LET position == PositionData(s) IN
    IF \/ userLocation[s] = NoLocation
       \/ Falsy(position.latitude)
       \/ Falsy(position.longitude)
    THEN TRUE
    ELSE calculateDistance(userLocation[s].lat, userLocation[s].lng,
                           position.latitude.value, position.longitude.value)
             <= NearThreshold * 1000

\* queries that run without a position id
QueryEnabledAlways(pid) == TRUE

\* enabled: !!positionId
QueryEnabled(pid) == pid # NoPositionId

\* a fetch starts: a query that holds data keeps its status while it refetches
StartFetch(q) ==
    [q EXCEPT !.req = "sent", !.failureCount = 0,
              !.status = IF q.loaded THEN q.status ELSE "loading"]

\* a query that retries without end
AfterFailureRetryAlways(q) ==
    [q EXCEPT !.failureCount = @ + 1, !.req = "sent"]

\* a failed attempt of a query with retry: QueryRetry, retryDelay: 1000
AfterFailure(q) ==
    IF q.failureCount < QueryRetry
    THEN [q EXCEPT !.failureCount = @ + 1, !.req = "sent"]
    ELSE [q EXCEPT !.failureCount = @ + 1, !.req = "none", !.status = "error"]

\* useQuery at mount.  The QueryClient outlives the page: a query of the same
\* key that is being fetched is joined, one that holds data shows it and is
\* fetched again if it is stale, any other is fetched
MountQuery(q, idle, sameKey, stale) ==
    IF ~sameKey \/ q = idle THEN StartFetch(idle)
    ELSE IF q.req # "none" THEN q
    ELSE IF q.loaded /\ ~stale THEN q
    ELSE StartFetch(q)

\* the page is opened with ?position=pid; the mount effects run.  An arrival
\* update that a page left earlier has sent stays on its way (OtherArrival)
Open(s, pid, geoSupported) ==
    /\ ~mounted[s]
    /\ positionId' = [positionId EXCEPT ![s] = pid]
    /\ selectedVolunteer' = [selectedVolunteer EXCEPT ![s] = NoSelection]
    /\ userLocation' = [userLocation EXCEPT ![s] = NoLocation]
    /\ mutation' = [mutation EXCEPT ![s] = IdleMutation]
    /\ succeeded' = [succeeded EXCEPT ![s] = {}]
    /\ IF QueryEnabled(pid)
       THEN /\ mounted' = [mounted EXCEPT ![s] = TRUE]
            /\ toast' = [toast EXCEPT ![s] = "none"]
            /\ geo' = [geo EXCEPT ![s] = IF geoSupported THEN "pending" ELSE "settled"]
            /\ isLoading' = [isLoading EXCEPT ![s] = geoSupported]
            /\ locationError' = [locationError EXCEPT ![s] = ~geoSupported]
            /\ \E stalePos, staleVol \in BOOLEAN :
                  /\ posQuery' = [posQuery EXCEPT ![s] =
                         MountQuery(@, IdleQuery, pid = positionId[s], stalePos)]
                  /\ volQuery' = [volQuery EXCEPT ![s] =
                         MountQuery(@, IdleVolunteers, pid = positionId[s], staleVol)]
       ELSE \* toast.error('Invalid QR code: No position ID') and
            \* navigate('/', { replace: true }): the page is left at once
            /\ mounted' = [mounted EXCEPT ![s] = FALSE]
            /\ toast' = [toast EXCEPT ![s] = "invalid"]
            /\ geo' = [geo EXCEPT ![s] = "closed"]
            /\ isLoading' = [isLoading EXCEPT ![s] = FALSE]
            /\ locationError' = [locationError EXCEPT ![s] = FALSE]
            /\ posQuery' = [posQuery EXCEPT ![s] = IdleQuery]
            /\ volQuery' = [volQuery EXCEPT ![s] = IdleVolunteers]
    /\ UNCHANGED <<dashVars, storeVars>>

\* getCurrentPosition success callback
GeoSuccess(s, where) ==
    /\ mounted[s] /\ geo[s] = "pending"
    /\ geo' = [geo EXCEPT ![s] = "settled"]
    /\ userLocation' = [userLocation EXCEPT ![s] = where]
    /\ isLoading' = [isLoading EXCEPT ![s] = FALSE]
    /\ UNCHANGED <<dashVars, storeVars, mounted, positionId, locationError,
                   selectedVolunteer, posQuery, volQuery, mutation, succeeded,
                   toast>>

\* an error callback that leaves the loading flag set
GeoErrorKeepsLoading(s) ==
    /\ mounted[s] /\ geo[s] = "pending"
    /\ geo' = [geo EXCEPT ![s] = "settled"]
    /\ locationError' = [locationError EXCEPT ![s] = TRUE]
    /\ UNCHANGED <<dashVars, storeVars, mounted, positionId, userLocation, isLoading,
                   selectedVolunteer, posQuery, volQuery, mutation, succeeded,
                   toast>>

\* getCurrentPosition error callback (denied, unavailable, timeout)
GeoError(s) ==
    /\ mounted[s] /\ geo[s] = "pending"
    /\ geo' = [geo EXCEPT ![s] = "settled"]
    /\ locationError' = [locationError EXCEPT ![s] = TRUE]
    /\ isLoading' = [isLoading EXCEPT ![s] = FALSE]
    /\ UNCHANGED <<dashVars, storeVars, mounted, positionId, userLocation,
                   selectedVolunteer, posQuery, volQuery, mutation, succeeded,
                   toast>>

\* the position lookup answers with the row
PositionFound(s) ==
    /\ posQuery[s].req = "sent"
    /\ positionId[s] \in PositionIds
    /\ posQuery' = [posQuery EXCEPT ![s] =
            [status |-> "success", failureCount |-> 0, loaded |-> TRUE,
             req |-> "none", error |-> "none"]]
    /\ UNCHANGED <<dashVars, storeVars, mounted, positionId, geo, isLoading, userLocation,
                   locationError, selectedVolunteer, volQuery, mutation, succeeded,
                   toast>>

\* .single() matches no row: the queryFn throws
PositionNoRow(s) ==
    /\ mounted[s] /\ posQuery[s].req = "sent"
    /\ positionId[s] \notin PositionIds
    /\ posQuery' = [posQuery EXCEPT ![s] = [AfterFailure(@) EXCEPT !.error = "no row"]]
    /\ UNCHANGED <<dashVars, storeVars, mounted, positionId, geo, isLoading, userLocation,
                   locationError, selectedVolunteer, volQuery, mutation, succeeded,
                   toast>>

\* the position lookup fails with a data-service error: the queryFn throws
PositionFault(s) ==
    /\ mounted[s] /\ posQuery[s].req = "sent"
    /\ posQuery' = [posQuery EXCEPT ![s] = [AfterFailure(@) EXCEPT !.error = "service"]]
    /\ UNCHANGED <<dashVars, storeVars, mounted, positionId, geo, isLoading,
                   userLocation, locationError, selectedVolunteer, volQuery,
                   mutation, succeeded,
                   toast>>

\* the data service evaluates the volunteers query of s
VolunteersRead(s) ==
    /\ volQuery[s].req = "sent"
    /\ \E list \in EligibleLists(rows, positionId[s]) :
          volQuery' = [volQuery EXCEPT ![s].req = "ok", ![s].result = list]
    /\ UNCHANGED <<dashVars, storeVars, mounted, positionId, geo, isLoading, userLocation,
                   locationError, selectedVolunteer, posQuery, mutation, succeeded,
                   toast>>

\* the volunteers response reaches the query
VolunteersLoaded(s) ==
    /\ volQuery[s].req = "ok"
    /\ volQuery' = [volQuery EXCEPT ![s] =
            [status |-> "success", failureCount |-> 0, loaded |-> TRUE,
             data |-> @.result, req |-> "none", result |-> <<>>]]
    /\ UNCHANGED <<dashVars, storeVars, mounted, positionId, geo, isLoading, userLocation,
                   locationError, selectedVolunteer, posQuery, mutation, succeeded,
                   toast>>

\* the volunteers query fails with a data-service error
VolunteersFault(s) ==
    /\ mounted[s] /\ volQuery[s].req = "sent"
    /\ volQuery' = [volQuery EXCEPT ![s] = AfterFailure(@)]
    /\ UNCHANGED <<dashVars, storeVars, mounted, positionId, geo, isLoading,
                   userLocation, locationError, selectedVolunteer, posQuery,
                   mutation, succeeded,
                   toast>>

\* refetch of the stale volunteers query (window focus, reconnect)
VolunteersRefetch(s) ==
    /\ mounted[s] /\ volQuery[s].req = "none"
    /\ volQuery[s].status \in {"success", "error"}
    /\ volQuery' = [volQuery EXCEPT ![s] = StartFetch(@)]
    /\ UNCHANGED <<dashVars, storeVars, mounted, positionId, geo, isLoading, userLocation,
                   locationError, selectedVolunteer, posQuery, mutation, succeeded,
                   toast>>

\* <select onChange>: one of the listed volunteers, or the empty option
SelectVolunteer(s, v) ==
    /\ View(s) = "AwaitingSelection"
    /\ v \in Range(volQuery[s].data) \cup {NoSelection}
    /\ v # selectedVolunteer[s]
    /\ selectedVolunteer' = [selectedVolunteer EXCEPT ![s] = v]
    /\ UNCHANGED <<dashVars, storeVars, mounted, positionId, geo, isLoading, userLocation,
                   locationError, posQuery, volQuery, mutation, succeeded,
                   toast>>

\* the button rendered outside the volunteers.length > 0 branch
CanSubmitAnyList(s) ==
    /\ View(s) \in {"AwaitingSelection", "NoEligibleVolunteers"}
    /\ selectedVolunteer[s] # NoSelection
    /\ ~isLoading[s]

\* a button that the proximity gate disables
CanSubmitNearOnly(s) ==
    /\ View(s) = "AwaitingSelection"
    /\ selectedVolunteer[s] # NoSelection
    /\ ~isLoading[s]
    /\ isNearPosition(s)

\* a button that is enabled without a selection
CanSubmitUnselected(s) ==
    /\ View(s) = "AwaitingSelection"
    /\ ~isLoading[s]

\* the Check In button is rendered and not disabled
CanSubmit(s) ==
    /\ View(s) = "AwaitingSelection"
    /\ selectedVolunteer[s] # NoSelection
    /\ ~isLoading[s]

\* a mutationFn that does not raise the loading flag
SubmitWithoutLoading(s) ==
    /\ CanSubmit(s)
    /\ mutation' = [mutation EXCEPT ![s] = [st |-> "sent", id |-> selectedVolunteer[s]]]
    /\ UNCHANGED <<dashVars, storeVars, mounted, positionId, geo, userLocation,
                   locationError, selectedVolunteer, posQuery, volQuery, succeeded,
                   toast, isLoading>>

\* Check In: checkInMutation.mutate(selectedVolunteer) sends the update
Submit(s) ==
    /\ CanSubmit(s)
    /\ mutation' = [mutation EXCEPT ![s] = [st |-> "sent", id |-> selectedVolunteer[s]]]
    /\ isLoading' = [isLoading EXCEPT ![s] = TRUE]
    /\ UNCHANGED <<dashVars, storeVars, mounted, positionId, geo, userLocation,
                   locationError, selectedVolunteer, posQuery, volQuery, succeeded,
                   toast>>

\* the data service applies the arrival update of s
ArrivalApplied(s) ==
    /\ mutation[s].st = "sent"
    /\ rows' = UpdateArrived(rows, mutation[s].id)
    /\ applied' = applied \cup {mutation[s].id}
    /\ mutation' = [mutation EXCEPT ![s].st = "ok"]
    /\ UNCHANGED <<dashVars, mounted, positionId, geo, isLoading,
                   userLocation, locationError, selectedVolunteer, posQuery,
                   volQuery, succeeded,
                   toast>>

\* the update's success arrives: finally, then onSuccess.  The callbacks of
\* useMutation run whether or not the page is still mounted; the state setters
\* of an unmounted page change nothing and a query nobody observes is
\* invalidated without being fetched
CheckInSucceeded(s) ==
    /\ mutation[s].st = "ok"
    /\ IF mounted[s]
       THEN /\ isLoading' = [isLoading EXCEPT ![s] = FALSE]
            /\ volQuery' = [volQuery EXCEPT ![s] = [StartFetch(@) EXCEPT !.result = <<>>]]
            /\ selectedVolunteer' = [selectedVolunteer EXCEPT ![s] = NoSelection]
       ELSE UNCHANGED <<isLoading, volQuery, selectedVolunteer>>
    /\ succeeded' = [succeeded EXCEPT ![s] = @ \cup {mutation[s].id}]
    /\ toast' = [toast EXCEPT ![s] = "success"]
    /\ mutation' = [mutation EXCEPT ![s] = IdleMutation]
    /\ UNCHANGED <<dashVars, storeVars, mounted, positionId, geo, userLocation,
                   locationError, posQuery>>

\* a failure handler that clears the selection like onSuccess
CheckInFailedClearsSelection(s) ==
    /\ mounted[s] /\ mutation[s].st = "sent"
    /\ isLoading' = [isLoading EXCEPT ![s] = FALSE]
    /\ mutation' = [mutation EXCEPT ![s] = IdleMutation]
    /\ toast' = [toast EXCEPT ![s] = "error"]
    /\ selectedVolunteer' = [selectedVolunteer EXCEPT ![s] = NoSelection]
    /\ UNCHANGED <<dashVars, storeVars, mounted, positionId, geo,
                   userLocation, locationError, posQuery, volQuery, succeeded>>

\* the update fails: finally, then onError (on an unmounted page the setter
\* changes nothing: isLoading is FALSE already)
CheckInFailed(s) ==
    /\ mutation[s].st = "sent"
    /\ isLoading' = [isLoading EXCEPT ![s] = FALSE]
    /\ mutation' = [mutation EXCEPT ![s] = IdleMutation]
    /\ toast' = [toast EXCEPT ![s] = "error"]
    /\ UNCHANGED <<dashVars, storeVars, mounted, positionId, geo,
                   userLocation, locationError, selectedVolunteer, posQuery,
                   volQuery, succeeded>>

\* the operator goes to another route of the application: the page unmounts
\* and its component state is discarded; the getCurrentPosition callback, if
\* still outstanding, holds the setters of the unmounted page; the queries and
\* the mutation are not cancelled, and the Toaster stays mounted
NavigateAway(s) ==
    /\ mounted[s]
    /\ mounted' = [mounted EXCEPT ![s] = FALSE]
    /\ geo' = [geo EXCEPT ![s] = "closed"]
    /\ isLoading' = [isLoading EXCEPT ![s] = FALSE]
    /\ userLocation' = [userLocation EXCEPT ![s] = NoLocation]
    /\ locationError' = [locationError EXCEPT ![s] = FALSE]
    /\ selectedVolunteer' = [selectedVolunteer EXCEPT ![s] = NoSelection]
    /\ UNCHANGED <<dashVars, storeVars, positionId, posQuery, volQuery, mutation,
                   succeeded, toast>>

\* the operator closes or reloads the page: the document and its query cache
\* are gone; an update already sent stays on its way to the data service
\* (OtherArrival)
Leave(s) ==
    /\ mounted[s]
    /\ mounted' = [mounted EXCEPT ![s] = FALSE]
    /\ geo' = [geo EXCEPT ![s] = "closed"]
    /\ isLoading' = [isLoading EXCEPT ![s] = FALSE]
    /\ userLocation' = [userLocation EXCEPT ![s] = NoLocation]
    /\ locationError' = [locationError EXCEPT ![s] = FALSE]
    /\ selectedVolunteer' = [selectedVolunteer EXCEPT ![s] = NoSelection]
    /\ posQuery' = [posQuery EXCEPT ![s] = IdleQuery]
    /\ volQuery' = [volQuery EXCEPT ![s] = IdleVolunteers]
    /\ mutation' = [mutation EXCEPT ![s] = IdleMutation]
    /\ toast' = [toast EXCEPT ![s] = "none"]
    /\ UNCHANGED <<dashVars, storeVars, positionId, succeeded>>

\* the data service applies the arrival update of a page other than the
\* mounted ones: the Check In of another device, or of a page since left
OtherArrival(id) ==
    /\ id \in SignupIds
    /\ rows' = UpdateArrived(rows, id)
    /\ applied' = applied \cup {id}
    /\ UNCHANGED <<sessVars, dashVars>>

\* SaveToSupabase: the imported roster is inserted, every row arrived: false
ImportRoster(batch) ==
    /\ Len(batch) > 0
    /\ Len(rows) + Len(batch) <= MaxSignups
    /\ rows' = rows \o batch
    /\ UNCHANGED <<applied, sessVars, dashVars>>

\* rosters of up to MaxSignups rows in all: signups of p1 at every start time,
\* signups of p2 at the first one
Batches ==
    UNION {[1..n -> {Row("p1", t) : t \in StartTimes} \cup {Row("p2", 1)}] :
              n \in 1..(MaxSignups - Len(rows))}

\* ----------------------------------------------------- EventsOverviewPage
NoRef == [null |-> TRUE]
Selections == {NoEventId} \cup EventIds \cup {UnknownEventId}

Min(a, b) == IF a < b THEN a ELSE b

\* a row of the positions query: id, name, needed, filled, event:events(id, name)
PositionRow(p) ==
    [id |-> p, name |-> PositionName[p], needed |-> Needed[p],
     filled |-> filled[p],
     event |-> [id |-> EventOf[p], name |-> eventName[EventOf[p]]]]

\* if (selectedEventId) query.eq('event_id', selectedEventId)
InQuery(key, p) == key = NoEventId \/ EventOf[p] = key

IsQueried(p) == InQuery(selectedEventId, p)

\* a query that keeps the rows of the selections loaded before
PositionsOfLoadedKeys ==
    [defined |-> loadedKeys # {},
     rows |-> SelectSeq([i \in DOMAIN PositionOrder |->
                            PositionRow(PositionOrder[i])],
                        LAMBDA r : \E key \in loadedKeys : InQuery(key, r.id))]

\* data of the ['positions', selectedEventId] query, undefined until loaded
Positions ==
    [defined |-> selectedEventId \in loadedKeys,
     rows |-> IF selectedEventId \in loadedKeys
              THEN SelectSeq([i \in DOMAIN PositionOrder |->
                                 PositionRow(PositionOrder[i])],
                             LAMBDA r : InQuery(selectedEventId, r.id))
              ELSE <<>>]

\* the page renders its content instead of the spinner
DashRendered == dashMounted /\ eventsLoaded /\ Positions.defined

\* a feed that keeps one entry too many
AddIssueOffByOne(prev, newIssue) ==
    SubSeq(<<newIssue>> \o prev, 1, Min(Len(prev) + 1, FeedCapacity + 1))

\* a feed that appends at the tail
AddIssueAtTail(prev, newIssue) ==
    SubSeq(prev \o <<newIssue>>, 1, Min(Len(prev) + 1, FeedCapacity))

\* a feed whose new entry takes the place of the most recent one
AddIssueReplacesHead(prev, newIssue) ==
    IF prev = <<>> THEN <<newIssue>> ELSE <<newIssue>> \o Tail(prev)

\* setIssues(prev => [newIssue, ...prev].slice(0, 100))
AddIssue(prev, newIssue) ==
    SubSeq(<<newIssue>> \o prev, 1, Min(Len(prev) + 1, FeedCapacity))

RECURSIVE AddIssues(_, _)
AddIssues(prev, news) ==
    IF news = <<>> THEN prev
    ELSE AddIssues(AddIssue(prev, Head(news)), Tail(news))

\* a check that also warns about exactly staffed positions
UnderstaffedOrEqual(row) == row.filled <= row.needed

\* position.filled < position.needed
Understaffed(row) == row.filled < row.needed

\* the warning of the staffing interval for one position
Warning(row, uuid) ==
    [id |-> uuid, type |-> "warning",
     message |-> <<"understaffed", row.name, row.filled, row.needed>>,
     position |-> [id |-> row.id, name |-> row.name, event |-> row.event],
     about |-> row.id]

\* positions.forEach(...): the warnings of one tick, in call order
StaffingWarnings(data, firstId) ==
    IF ~data.defined THEN <<>>
    ELSE LET low == SelectSeq(data.rows, Understaffed) IN
         [i \in DOMAIN low |-> Warning(low[i], firstId + i - 1)]

\* .select('name, event:events(name)').eq('id', position_id).single()
LookupRow(p) ==
    [name |-> PositionName[p], event |-> [name |-> eventName[EventOf[p]]]]

\* (position?.event as any)?.id
LookupEventId(position) ==
    IF position = NoRef THEN Undefined
    ELSE IF "id" \in DOMAIN position.event THEN position.event.id
    ELSE Undefined

\* the info issue of a signup notification
Info(pid, position, uuid) ==
    [id |-> uuid, type |-> "info",
     message |-> <<"signed up", IF position = NoRef THEN Undefined ELSE position.name>>,
     position |-> position,
     about |-> pid]

\* issue.position?.event.name
IssueEventName(issue) ==
    IF issue.position = NoRef THEN Undefined ELSE issue.position.event.name

\* events.find(e => e.id === selectedEventId)?.name
SelectedEventName ==
    IF selectedEventId \in EventIds THEN eventName[selectedEventId] ELSE Undefined

\* the filter of the Live Updates list
Shown(issue) ==
    selectedEventId = NoEventId \/ IssueEventName(issue) = SelectedEventName

FeedView == SelectSeq(issues, Shown)

\* an effect that writes the parameter and never clears it
SyncSearchParamsOnlyIds(sel, param) ==
    IF sel # NoEventId THEN sel ELSE param

\* the eventId parameter after the selection effect: setSearchParams({ eventId:
\* selectedEventId }) for a selection, setSearchParams({}) for none
SyncSearchParams(sel, param) ==
    IF sel # NoEventId THEN sel ELSE NoEventId

\* the cleanup of the issues effect: the channel is unsubscribed and the
\* interval cleared; a handler that awaits its lookup is not cancelled
AfterCleanup(handlers) ==
    [i \in DOMAIN handlers |->
        IF handlers[i].setup = "live"
        THEN [handlers[i] EXCEPT !.setup = "stale"] ELSE handlers[i]]

\* the cleanup at unmount: the waiting handlers keep the setIssues of a
\* component that is no longer mounted
AfterUnmount(handlers) ==
    [i \in DOMAIN handlers |-> [handlers[i] EXCEPT !.setup = "gone"]]

\* nothing registered
NoSetup == [intervals |-> <<>>, channels |-> 0]

\* a cleanup that unsubscribes the channel and leaves the interval running
EffectCleanupKeepsInterval(r) ==
    [r EXCEPT !.channels = @ - 1]

\* the cleanup function of the issues effect: signupsChannel.unsubscribe() and
\* clearInterval(staffingInterval) for the channel and the interval of the run
\* it belongs to, the last one registered
EffectCleanup(r) ==
    [intervals |-> SubSeq(r.intervals, 1, Len(r.intervals) - 1),
     channels |-> r.channels - 1]

\* the body of the issues effect: setInterval(..., 60000) starts a new
\* interval and signupsChannel.subscribe() a new subscription
EffectSetup(r) ==
    [intervals |-> Append(r.intervals, 0), channels |-> r.channels + 1]

\* the page is opened with ?eventId=sel: the selection is initialised from the
\* parameter, the queries start unless the query cache holds their data, the
\* selection effect writes the parameter, the issues effect subscribes and
\* starts the interval
DashOpen(sel) ==
    /\ ~dashMounted
    /\ dashMounted' = TRUE
    /\ selectedEventId' = sel
    /\ urlEventId' = SyncSearchParams(sel, sel)
    /\ registered' = EffectSetup(registered)
    /\ issues' = <<>>
    /\ appended' = <<>>
    /\ lastEvent' = "other"
    /\ lastBatch' = 0
    /\ UNCHANGED <<storeVars, sessVars, eventName, filled, coordinates,
                   eventsLoaded, loadedKeys, lookups>>

\* the operator navigates away from the dashboard: the page unmounts, the
\* cleanup of the issues effect runs, the component state is discarded
DashClose ==
    /\ dashMounted
    /\ dashMounted' = FALSE
    /\ selectedEventId' = NoEventId
    /\ urlEventId' = NoEventId
    /\ lookups' = AfterUnmount(lookups)
    /\ registered' = EffectCleanup(registered)
    /\ issues' = <<>>
    /\ appended' = <<>>
    /\ lastEvent' = "none"
    /\ lastBatch' = 0
    /\ UNCHANGED <<storeVars, sessVars, eventName, filled, coordinates,
                   eventsLoaded, loadedKeys>>

\* the eventId parameter changes while the page is mounted (history back or
\* forward, a link to the same route): the selectedEventId state was
\* initialised at mount and is not set again.  Whether setSearchParams keeps
\* its identity across a change of the parameters is the router's: if it does
\* not, the selection effect runs again and writes the parameter
UrlChanged(sel, rerun) ==
    /\ dashMounted
    /\ sel # urlEventId
    /\ urlEventId' = IF rerun THEN SyncSearchParams(selectedEventId, sel) ELSE sel
    /\ lastEvent' = "other"
    /\ lastBatch' = 0
    /\ UNCHANGED <<storeVars, sessVars, eventName, filled, coordinates,
                   dashMounted, selectedEventId, eventsLoaded, loadedKeys, lookups,
                   issues, appended, registered>>

\* the events query delivers
EventsLoaded ==
    /\ dashMounted /\ ~eventsLoaded
    /\ eventsLoaded' = TRUE
    /\ lastEvent' = "other"
    /\ lastBatch' = 0
    /\ UNCHANGED <<storeVars, sessVars, eventName, filled, coordinates,
                   dashMounted, selectedEventId, urlEventId, loadedKeys, lookups,
                   issues, appended, registered>>

\* the positions query of the current selection delivers; the issues effect is
\* cleaned up and runs again
PositionsLoaded ==
    /\ dashMounted /\ selectedEventId \notin loadedKeys
    /\ loadedKeys' = loadedKeys \cup {selectedEventId}
    /\ lookups' = AfterCleanup(lookups)
    /\ registered' = EffectSetup(EffectCleanup(registered))
    /\ lastEvent' = "other"
    /\ lastBatch' = 0
    /\ UNCHANGED <<storeVars, sessVars, eventName, filled, coordinates,
                   dashMounted, selectedEventId, urlEventId, eventsLoaded, issues,
                   appended>>

\* <select onChange>: All Events or one of the listed events; the selection
\* effect writes the parameter, the issues effect is cleaned up and runs again
SelectEvent(sel) ==
    /\ DashRendered
    /\ sel \in {NoEventId} \cup EventIds
    /\ sel # selectedEventId
    /\ selectedEventId' = sel
    /\ urlEventId' = SyncSearchParams(sel, urlEventId)
    /\ lookups' = AfterCleanup(lookups)
    /\ registered' = EffectSetup(EffectCleanup(registered))
    /\ lastEvent' = "other"
    /\ lastBatch' = 0
    /\ UNCHANGED <<storeVars, sessVars, eventName, filled, coordinates,
                   dashMounted, eventsLoaded, loadedKeys, issues, appended>>

\* an INSERT on volunteer_signups is pushed to the subscription: the handler
\* starts its position lookup
SignupInserted(pid) ==
    /\ dashMounted
    /\ lookups' = Append(lookups, [position_id |-> pid,
                                   selectedEventId |-> selectedEventId,
                                   setup |-> "live"])
    /\ lastEvent' = "other"
    /\ lastBatch' = 0
    /\ UNCHANGED <<storeVars, sessVars, eventName, filled, coordinates,
                   dashMounted, selectedEventId, urlEventId, eventsLoaded, loadedKeys,
                   issues, appended, registered>>

\* a handler that does not test the event type: every notification starts
\* the position lookup
SignupChangedLooksUp(eventType) ==
    /\ dashMounted
    /\ eventType \in {"UPDATE", "DELETE"}
    /\ lookups' = Append(lookups, [position_id |-> "p1",
                                   selectedEventId |-> selectedEventId,
                                   setup |-> "live"])
    /\ lastEvent' = eventType
    /\ lastBatch' = 0
    /\ UNCHANGED <<storeVars, sessVars, eventName, filled, coordinates,
                   dashMounted, selectedEventId, urlEventId, eventsLoaded, loadedKeys,
                   issues, appended, registered>>

\* an UPDATE or a DELETE on volunteer_signups is pushed to the subscription
\* (event: '*'): the handler runs, payload.eventType === 'INSERT' is false and
\* it returns
SignupChanged(eventType) ==
    /\ dashMounted
    /\ eventType \in {"UPDATE", "DELETE"}
    /\ lastEvent' = eventType
    /\ lastBatch' = 0
    /\ UNCHANGED <<storeVars, sessVars, eventName, filled, coordinates,
                   dashMounted, selectedEventId, urlEventId, eventsLoaded, loadedKeys,
                   lookups, issues, appended, registered>>

\* the lookup of the i-th waiting handler answers (no row and errors give null)
\* and the handler runs on with the selection it was created under; the
\* setIssues of an unmounted component changes nothing
LookupDone(i, found) ==
    /\ i \in DOMAIN lookups
    /\ found => lookups[i].position_id \in PositionIds
    /\ LET h == lookups[i]
           position == IF found THEN LookupRow(h.position_id) ELSE NoRef
           adds == /\ h.setup # "gone"
                   /\ \/ h.selectedEventId = NoEventId
                      \/ LookupEventId(position) = h.selectedEventId
           issue == Info(h.position_id, position, Len(appended) + 1)
       IN /\ issues' = IF adds THEN AddIssue(issues, issue) ELSE issues
          /\ appended' = IF adds THEN Append(appended, issue) ELSE appended
          /\ lastBatch' = IF adds THEN 1 ELSE 0
          /\ lastEvent' = IF h.setup = "gone" THEN "other"
                          ELSE IF found THEN "resolved" ELSE "unresolved"
    /\ lookups' = [j \in 1..(Len(lookups) - 1) |->
                      IF j < i THEN lookups[j] ELSE lookups[j + 1]]
    /\ UNCHANGED <<storeVars, sessVars, eventName, filled, coordinates,
                   dashMounted, selectedEventId, urlEventId, eventsLoaded, loadedKeys,
                   registered>>

\* the calls of addIssue when the callbacks of k live intervals run
RECURSIVE IntervalWarnings(_, _, _)
IntervalWarnings(k, data, firstId) ==
    IF k = 0 THEN <<>>
    ELSE LET w == StaffingWarnings(data, firstId) IN
         w \o IntervalWarnings(k - 1, data, firstId + Len(w))

\* time passes by one unit: the live intervals come closer to firing; an
\* interval that is due fires before more time passes
TimePasses ==
    /\ dashMounted
    /\ \A i \in DOMAIN registered.intervals :
          registered.intervals[i] < IntervalUnits
    /\ registered' = [registered EXCEPT
            !.intervals = [i \in DOMAIN @ |-> @[i] + 1]]
    /\ lastEvent' = "other"
    /\ lastBatch' = 0
    /\ UNCHANGED <<storeVars, sessVars, eventName, filled, coordinates,
                   dashMounted, selectedEventId, urlEventId, eventsLoaded, loadedKeys,
                   lookups, issues, appended>>

\* an interval is due: its 60 seconds have passed
IntervalDue ==
    \E i \in DOMAIN registered.intervals :
        registered.intervals[i] = IntervalUnits

\* the staffing interval fires: the callback of every live interval runs and
\* the interval starts over
StaffingTick ==
    /\ dashMounted
    /\ LET news == IntervalWarnings(Len(registered.intervals), Positions,
                                    Len(appended) + 1) IN
          /\ issues' = AddIssues(issues, news)
          /\ appended' = appended \o news
          /\ lastBatch' = Len(news)
    /\ registered' = [registered EXCEPT !.intervals = [i \in DOMAIN @ |-> 0]]
    /\ lastEvent' = "tick"
    /\ UNCHANGED <<storeVars, sessVars, eventName, filled, coordinates,
                   dashMounted, selectedEventId, urlEventId, eventsLoaded, loadedKeys,
                   lookups>>

\* ------------------------------------------------------------ specifications
StoreInit ==
    /\ rows = <<Row("p1", 2)>>
    /\ applied = {}

SessionsIdle ==
    /\ mounted = [s \in Sessions |-> FALSE]
    /\ positionId = [s \in Sessions |-> NoPositionId]
    /\ geo = [s \in Sessions |-> "closed"]
    /\ isLoading = [s \in Sessions |-> FALSE]
    /\ userLocation = [s \in Sessions |-> NoLocation]
    /\ locationError = [s \in Sessions |-> FALSE]
    /\ selectedVolunteer = [s \in Sessions |-> NoSelection]
    /\ posQuery = [s \in Sessions |-> IdleQuery]
    /\ volQuery = [s \in Sessions |-> IdleVolunteers]
    /\ mutation = [s \in Sessions |-> IdleMutation]
    /\ succeeded = [s \in Sessions |-> {}]
    /\ toast = [s \in Sessions |-> "none"]

DashIdle ==
    /\ dashMounted = FALSE
    /\ selectedEventId = NoEventId
    /\ urlEventId = NoEventId
    /\ eventsLoaded = FALSE
    /\ loadedKeys = {}
    /\ lookups = <<>>
    /\ issues = <<>>
    /\ appended = <<>>
    /\ lastEvent = "none"
    /\ lastBatch = 0
    /\ registered = NoSetup

\* the check-in position lies on the meridian of the operator's locations, one
\* within NearThreshold and one beyond it; the other position has no coordinates
CheckInCoordinates ==
    [p \in PositionIds |->
        IF p = "p1" THEN Coordinates(Num(17), Num(18)) ELSE Coordinates(Null, Null)]
CheckInLocations == {Location(17, 18), Location(40, 18)}

InitCheckIn ==
    /\ StoreInit /\ SessionsIdle /\ DashIdle
    /\ eventName = [e \in EventIds |-> "5K Run"]
    /\ filled = [p \in PositionIds |-> 1]
    /\ coordinates = CheckInCoordinates

NextCheckIn ==
    \/ \E s \in Sessions, pid \in UrlPositionIds, g \in BOOLEAN : Open(s, pid, g)
    \/ \E s \in Sessions, w \in CheckInLocations : GeoSuccess(s, w)
    \/ \E s \in Sessions : GeoError(s)
    \/ \E s \in Sessions : PositionFound(s)
    \/ \E s \in Sessions : PositionNoRow(s)
    \/ \E s \in Sessions : PositionFault(s)
    \/ \E s \in Sessions : VolunteersRead(s)
    \/ \E s \in Sessions : VolunteersLoaded(s)
    \/ \E s \in Sessions : VolunteersFault(s)
    \/ \E s \in Sessions : VolunteersRefetch(s)
    \/ \E s \in Sessions, v \in SignupIds \cup {NoSelection} : SelectVolunteer(s, v)
    \/ \E s \in Sessions : Submit(s)
    \/ \E s \in Sessions : ArrivalApplied(s)
    \/ \E s \in Sessions : CheckInSucceeded(s)
    \/ \E s \in Sessions : CheckInFailed(s)
    \/ \E s \in Sessions : Leave(s)
    \/ \E id \in SignupIds : OtherArrival(id)
    \/ \E batch \in Batches : ImportRoster(batch)

SpecCheckIn == InitCheckIn /\ [][NextCheckIn]_vars

\* the dashboard over every staffing level and over equal and distinct event
\* names, up to MaxDashIssues issues
InitDash ==
    /\ StoreInit /\ SessionsIdle /\ DashIdle
    /\ eventName \in {n \in [EventIds -> EventNames] : n["e1"] = "5K Run"}
    /\ filled \in {f \in [PositionIds -> 1..3] :
                      \A p \in PositionIds : f[p] \in FilledChoices[p]}
    /\ coordinates = CheckInCoordinates

InsertedPositionIds == {"p2", "No Position"}

NextDash ==
    \/ \E sel \in Selections : DashOpen(sel)
    \/ EventsLoaded
    \/ PositionsLoaded
    \/ \E sel \in Selections : SelectEvent(sel)
    \/ \E pid \in InsertedPositionIds :
          Len(lookups) < MaxLookups /\ SignupInserted(pid)
    \/ \E i \in DOMAIN lookups, found \in BOOLEAN :
          Len(appended) < MaxDashIssues /\ LookupDone(i, found)
    \/ /\ Len(appended) + Len(StaffingWarnings(Positions, 1)) <= MaxDashIssues
       /\ StaffingTick

SpecDash == InitDash /\ [][NextDash]_vars

\* the feed at its capacity: one understaffed position, no filter, ticks and
\* up to MaxFeedNotifications signup notifications in any interleaving; the
\* events query, which the issues effect does not read, stays pending
InitFeed ==
    /\ StoreInit /\ SessionsIdle /\ DashIdle
    /\ eventName = [e \in EventIds |-> IF e = "e1" THEN "5K Run" ELSE "Gala"]
    /\ filled = [p \in PositionIds |-> IF p = "p1" THEN 1 ELSE 2]
    /\ coordinates = CheckInCoordinates

InfoCount == Cardinality({i \in DOMAIN appended : appended[i].type = "info"})

NextFeed ==
    \/ DashOpen(NoEventId)
    \/ PositionsLoaded
    \/ /\ InfoCount + Len(lookups) < MaxFeedNotifications
       /\ Len(lookups) < MaxLookups
       /\ SignupInserted("p2")
    \/ \E i \in DOMAIN lookups :
          Len(appended) < MaxFeedIssues /\ LookupDone(i, TRUE)
    \/ /\ Len(appended) + Len(StaffingWarnings(Positions, 1)) <= MaxFeedIssues
       /\ StaffingTick

SpecFeed == InitFeed /\ [][NextFeed]_vars

\* the proximity gate of a check-in page over positions with and without
\* coordinates, on the equator and on the meridians 0 and 0.0018, and operator
\* locations on the same arcs
GateCoordinates ==
    {Coordinates(lat, lng) : lat \in {Null, Num(0), Num(17)},
                             lng \in {Null, Num(0), Num(18)}}
GateLocations ==
    {Location(0, 0), Location(0, 18), Location(0, 40), Location(17, 0),
     Location(40, 0), Location(17, 18), Location(40, 18)}

\* calculateDistance is applied to w and the coordinates c on one of its arcs,
\* or not applied at all
Measurable(w, c) ==
    IF c.latitude.null \/ c.longitude.null THEN TRUE
    ELSE w.lng = c.longitude.value \/ (w.lat = 0 /\ c.latitude.value = 0)

InitGate ==
    /\ StoreInit /\ SessionsIdle /\ DashIdle
    /\ eventName = [e \in EventIds |-> "5K Run"]
    /\ filled = [p \in PositionIds |-> 1]
    /\ coordinates \in [PositionIds -> GateCoordinates]

NextGate ==
    \/ \E s \in Sessions, pid \in PositionIds, g \in BOOLEAN : Open(s, pid, g)
    \/ \E s \in Sessions, w \in GateLocations :
          /\ mounted[s]
          /\ Measurable(w, coordinates[positionId[s]])
          /\ GeoSuccess(s, w)
    \/ \E s \in Sessions : GeoError(s)
    \/ \E s \in Sessions : PositionFound(s)
    \/ \E s \in Sessions : VolunteersRead(s)
    \/ \E s \in Sessions : VolunteersLoaded(s)
    \/ \E s \in Sessions : Leave(s)

SpecGate == InitGate /\ [][NextGate]_vars

\* the store under a check-in page and the dashboard at once: positions as
\* createMutation inserted them, roster imports of signups of the checked-in
\* position at the first start time, check-ins with failures and
\* reloads, arrivals from other pages, signup notifications and staffing ticks
InitStore ==
    /\ StoreInit /\ SessionsIdle /\ DashIdle
    /\ eventName = [e \in EventIds |-> "5K Run"]
    /\ filled = [p \in PositionIds |-> NewPositionFilled]
    /\ coordinates = CheckInCoordinates

NextStore ==
    \/ \E s \in Sessions : Open(s, "p1", FALSE)
    \/ \E s \in Sessions : PositionFound(s)
    \/ \E s \in Sessions : VolunteersRead(s)
    \/ \E s \in Sessions : VolunteersLoaded(s)
    \/ \E s \in Sessions, v \in SignupIds : SelectVolunteer(s, v)
    \/ \E s \in Sessions : Submit(s)
    \/ \E s \in Sessions : ArrivalApplied(s)
    \/ \E s \in Sessions : CheckInSucceeded(s)
    \/ \E s \in Sessions : CheckInFailed(s)
    \/ \E s \in Sessions : Leave(s)
    \/ \E id \in SignupIds : OtherArrival(id)
    \/ \E batch \in Batches :
          /\ \A i \in DOMAIN batch : batch[i] = Row("p1", 1)
          /\ ImportRoster(batch)
    \/ DashOpen(NoEventId)
    \/ PositionsLoaded
    \/ Len(lookups) < MaxLookups /\ SignupInserted("p1")
    \/ \E i \in DOMAIN lookups :
          Len(appended) < MaxDashIssues /\ LookupDone(i, TRUE)
    \/ /\ Len(appended) + Len(StaffingWarnings(Positions, 1)) <= MaxDashIssues
       /\ StaffingTick

SpecStore == InitStore /\ [][NextStore]_vars

\* check-in pages whose location is never obtained: geolocation is unsupported,
\* or getCurrentPosition is called with timeout: 10000 and ends in its error
\* callback (denied, unavailable, timed out).  The error callback and the
\* answers of the data service arrive eventually; lookups and fetches may fail
\* and are retried
InitGeo ==
    /\ StoreInit /\ SessionsIdle /\ DashIdle
    /\ eventName = [e \in EventIds |-> "5K Run"]
    /\ filled = [p \in PositionIds |-> 1]
    /\ coordinates = CheckInCoordinates

NextGeo ==
    \/ \E s \in Sessions, pid \in PositionIds \cup {UnknownPositionId}, g \in BOOLEAN :
          Open(s, pid, g)
    \/ \E s \in Sessions : GeoError(s)
    \/ \E s \in Sessions : PositionFound(s)
    \/ \E s \in Sessions : PositionNoRow(s)
    \/ \E s \in Sessions : PositionFault(s)
    \/ \E s \in Sessions : VolunteersRead(s)
    \/ \E s \in Sessions : VolunteersLoaded(s)
    \/ \E s \in Sessions : VolunteersFault(s)
    \/ \E s \in Sessions, v \in SignupIds \cup {NoSelection} : SelectVolunteer(s, v)
    \/ \E s \in Sessions : Leave(s)

SpecGeo ==
    /\ InitGeo /\ [][NextGeo]_vars
    /\ WF_vars(\E s \in Sessions : GeoError(s))
    /\ WF_vars(\E s \in Sessions :
                  PositionFound(s) \/ PositionNoRow(s) \/ PositionFault(s))
    /\ WF_vars(\E s \in Sessions : VolunteersRead(s) \/ VolunteersFault(s))
    /\ WF_vars(\E s \in Sessions : VolunteersLoaded(s))

\* a check-in page that is left for another route while its requests are under
\* way, and opened again
InitLeave ==
    /\ StoreInit /\ SessionsIdle /\ DashIdle
    /\ eventName = [e \in EventIds |-> "5K Run"]
    /\ filled = [p \in PositionIds |-> 1]
    /\ coordinates = CheckInCoordinates

NextLeave ==
    \/ \E s \in Sessions, pid \in PositionIds, g \in BOOLEAN : Open(s, pid, g)
    \/ \E s \in Sessions, w \in CheckInLocations : GeoSuccess(s, w)
    \/ \E s \in Sessions : GeoError(s)
    \/ \E s \in Sessions : PositionFound(s)
    \/ \E s \in Sessions : VolunteersRead(s)
    \/ \E s \in Sessions : VolunteersLoaded(s)
    \/ \E s \in Sessions, v \in SignupIds : SelectVolunteer(s, v)
    \/ \E s \in Sessions : Submit(s)
    \/ \E s \in Sessions : ArrivalApplied(s)
    \/ \E s \in Sessions : CheckInSucceeded(s)
    \/ \E s \in Sessions : CheckInFailed(s)
    \/ \E s \in Sessions : NavigateAway(s)
    \/ \E s \in Sessions : Leave(s)

SpecLeave == InitLeave /\ [][NextLeave]_vars

\* the dashboard's life cycle and its URL binding: the page is opened with any
\* eventId parameter, the selection and the parameter change, the page is left
\* and opened again, while up to MaxLookups signup notifications await their
\* lookup and up to MaxSyncIssues issues are added
InitSync ==
    /\ StoreInit /\ SessionsIdle /\ DashIdle
    /\ eventName = [e \in EventIds |-> IF e = "e1" THEN "5K Run" ELSE "Gala"]
    /\ filled = [p \in PositionIds |-> 2]
    /\ coordinates = CheckInCoordinates

NextSync ==
    \/ \E sel \in Selections : DashOpen(sel)
    \/ DashClose
    \/ EventsLoaded
    \/ PositionsLoaded
    \/ \E sel \in Selections : SelectEvent(sel)
    \/ \E sel \in Selections, rerun \in BOOLEAN : UrlChanged(sel, rerun)
    \/ Len(lookups) < MaxLookups /\ SignupInserted("p2")
    \/ \E i \in DOMAIN lookups :
          Len(appended) < MaxSyncIssues /\ LookupDone(i, TRUE)
    \/ StaffingTick

SpecSync == InitSync /\ [][NextSync]_vars

\* the staffing interval under time: the page is opened, left and opened
\* again, the selection changes and the positions queries deliver while time
\* passes in units of 1/IntervalUnits of the period, up to MaxTimerIssues
\* warnings.  Time does not stop and a callback that is due runs
InitTimer ==
    /\ StoreInit /\ SessionsIdle /\ DashIdle
    /\ eventName = [e \in EventIds |-> IF e = "e1" THEN "5K Run" ELSE "Gala"]
    /\ filled \in {f \in [PositionIds -> 1..3] :
                      \A q \in PositionIds : f[q] \in FilledChoices[q]}
    /\ coordinates = CheckInCoordinates

TimerFires ==
    /\ IntervalDue
    /\ Len(appended) + Len(StaffingWarnings(Positions, 1)) <= MaxTimerIssues
    /\ StaffingTick

NextTimer ==
    \/ \E sel \in Selections : DashOpen(sel)
    \/ DashClose
    \/ EventsLoaded
    \/ PositionsLoaded
    \/ \E sel \in Selections : SelectEvent(sel)
    \/ TimePasses
    \/ TimerFires

SpecTimer ==
    InitTimer /\ [][NextTimer]_vars /\ WF_vars(TimePasses) /\ WF_vars(TimerFires)

\* the signup subscription: insertions, updates and deletions are notified in
\* any order while up to MaxNotifyLookups handlers await their lookups, which
\* answer in any order, up to MaxNotifyIssues issues
InitNotify ==
    /\ StoreInit /\ SessionsIdle /\ DashIdle
    /\ eventName = [e \in EventIds |-> IF e = "e1" THEN "5K Run" ELSE "Gala"]
    /\ filled = [p \in PositionIds |-> 2]
    /\ coordinates = CheckInCoordinates

NextNotify ==
    \/ \E sel \in {NoEventId} \cup EventIds : DashOpen(sel)
    \/ EventsLoaded
    \/ PositionsLoaded
    \/ \E sel \in Selections : SelectEvent(sel)
    \/ \E pid \in PositionIds :
          Len(lookups) < MaxNotifyLookups /\ SignupInserted(pid)
    \/ \E eventType \in {"UPDATE", "DELETE"} : SignupChanged(eventType)
    \/ \E i \in DOMAIN lookups, found \in BOOLEAN :
          Len(appended) < MaxNotifyIssues /\ LookupDone(i, found)

SpecNotify == InitNotify /\ [][NextNotify]_vars

\* ------------------------------------------------------------------ claims
\* s sends an arrival update in this step
Submits(s) == mutation[s].st = "idle" /\ mutation'[s].st = "sent"

\* the data service evaluates the volunteers query of s in this step
Fetches(s) == volQuery[s].req = "sent" /\ volQuery'[s].req = "ok"

\* C1: once the service has applied the arrival update of signup X, no
\* eligible-volunteers fetch evaluated afterwards returns X, whatever check-ins,
\* imports and reloads happened in between.
C1_FetchExcludesCheckedIn ==
    [][\A s \in Sessions :
          Fetches(s) => \A x \in applied : x \notin Range(volQuery'[s].result)]_vars

\* a session that checked X in holds a later fetch result for X's position that
\* lists another signup
C1_Witness ==
    \E s \in Sessions : \E x \in succeeded[s] :
        /\ volQuery[s].req = "ok"
        /\ rows[x].position_id = positionId[s]
        /\ volQuery[s].result # <<>>

\* C2: the arrival update is a field set: every signup whose update was applied
\* has arrived = true whatever else was applied before or after, and on every
\* reachable table the update of a signup sets its flag, leaves every other row
\* as it was, and applied a second time changes nothing.
C2_ArrivalIdempotent ==
    /\ \A x \in applied : rows[x].arrived
    /\ \A x \in SignupIds :
          LET once == UpdateArrived(rows, x) IN
          /\ DOMAIN once = DOMAIN rows
          /\ once[x].arrived
          /\ \A y \in SignupIds \ {x} : once[y] = rows[y]
          /\ UpdateArrived(once, x) = once

\* the update of a signup has been applied a second time while another signup
\* is still not arrived
C2_Witness ==
    \E s \in Sessions :
        /\ mutation[s].st = "ok"
        /\ mutation[s].id \in succeeded[s]
        /\ \E y \in SignupIds : ~rows[y].arrived

\* C3: within one session, once the arrival update for X has succeeded the
\* session never sends another arrival update for X.
C3_NoSecondUpdate ==
    [][\A s \in Sessions : Submits(s) => mutation'[s].id \notin succeeded[s]]_vars

\* C4: a session whose loaded eligible list is empty sends no arrival update.
C4_NoSubmitOnEmptyList ==
    [][\A s \in Sessions :
          Submits(s) => volQuery[s].loaded /\ Len(volQuery[s].data) > 0]_vars

\* the session shows NoEligibleVolunteers while a selection made on an earlier
\* list is still held
C4_Witness ==
    \E s \in Sessions :
        /\ View(s) = "NoEligibleVolunteers"
        /\ volQuery[s].loaded /\ volQuery[s].data = <<>>
        /\ selectedVolunteer[s] # NoSelection

Added == Len(appended') - Len(appended)

\* C6: after every append the feed holds at most 100 entries, entries leave it
\* only when an append would exceed 100, and the ones that leave are the oldest:
\* the entries kept are the most recent ones of the feed before the step, in
\* their order, behind the entries the step added.
C6_BoundedOldestEvicted ==
    [][/\ Len(issues') <= FeedCapacity
       /\ Len(issues') = Min(Len(issues) + Added, FeedCapacity)
       /\ \A i \in 1..(Len(issues') - Added) : issues'[i + Added] = issues[i]]_vars

\* the feed is full and has dropped entries
C6_Witness ==
    /\ Len(issues) = FeedCapacity
    /\ Len(appended) > FeedCapacity
    /\ issues[FeedCapacity].id = Len(appended) - FeedCapacity + 1

\* C7: no append of either producer is lost, duplicated or merged: after k
\* appends the feed is exactly the min(k, 100) most recently appended issues,
\* most recent first, in the order in which the appends ran.
C7_FeedIsRecentHistory ==
    issues = [i \in 1..Min(Len(appended), FeedCapacity) |->
                 appended[Len(appended) - i + 1]]

\* both producers have appended, the notification between two ticks, and the
\* feed has passed its capacity
C7_Witness ==
    /\ Len(appended) > FeedCapacity
    /\ \E i \in 2..(Len(issues) - 1) :
          /\ issues[i].type = "info"
          /\ issues[i - 1].type = "warning"
          /\ issues[i + 1].type = "warning"

\* the issues the last step added, most recent first
LastAdded == SubSeq(issues, 1, lastBatch)

\* C8: a staffing tick appends one warning for every loaded position with
\* filled < needed and none for a position with filled >= needed, whether or
\* not an earlier tick has already warned about the position.
C8_OneWarningPerUnderstaffed ==
    lastEvent = "tick" =>
        /\ \A i \in DOMAIN LastAdded : LastAdded[i].type = "warning"
        /\ \A p \in PositionIds :
              Cardinality({i \in DOMAIN LastAdded : LastAdded[i].position.id = p})
                  = IF Positions.defined /\ IsQueried(p) /\ filled[p] < Needed[p]
                    THEN 1 ELSE 0

\* a tick has warned again about a position an earlier tick warned about, next
\* to a loaded position that is staffed
C8_Witness ==
    /\ lastEvent = "tick" /\ lastBatch = 1
    /\ Len(issues) > 1
    /\ issues[2].type = "warning"
    /\ issues[2].position.id = issues[1].position.id
    /\ \E p \in PositionIds : IsQueried(p) /\ filled[p] >= Needed[p]

\* C9: under an event filter the feed view shows an issue that references a
\* position only if the position belongs to the selected event id.
C9_FilterByEventId ==
    DashRendered /\ selectedEventId # NoEventId =>
        \A i \in DOMAIN FeedView :
            FeedView[i].position # NoRef /\ FeedView[i].about \in PositionIds =>
                EventOf[FeedView[i].about] = selectedEventId

\* C10: an issue without a position reference is shown under every selection.
C10_UnreferencedAlwaysShown ==
    DashRendered =>
        \A i \in DOMAIN issues :
            issues[i].position = NoRef => issues[i] \in Range(FeedView)

\* C11: every signup notification whose position lookup succeeded has appended
\* one info issue that carries the resolved position, whatever event filter
\* was active.
C11_InfoForResolvedNotification ==
    lastEvent = "resolved" =>
        /\ lastBatch = 1
        /\ issues[1].type = "info"
        /\ issues[1].about \in PositionIds
        /\ issues[1].position = LookupRow(issues[1].about)

\* C12: a signup notification whose position lookup failed or found no row is
\* dropped: the feed holds no info issue without a position.
C12_UnresolvedDropped ==
    /\ lastEvent = "unresolved" => lastBatch = 0
    /\ \A i \in DOMAIN issues :
          issues[i].type = "info" => issues[i].position # NoRef

\* the position of s carries both coordinates
HasCoordinates(s) ==
    /\ PositionData(s).defined
    /\ ~PositionData(s).latitude.null /\ ~PositionData(s).longitude.null

\* the page of s renders its main view, where isNearPosition() is evaluated
GateEvaluated(s) == View(s) \in {"AwaitingSelection", "NoEligibleVolunteers"}

\* C13: the proximity gate answers true whenever the operator's location is
\* unavailable or the position lacks a coordinate, whatever the other argument.
C13_GateOpenWithoutLocation ==
    \A s \in Sessions :
        userLocation[s] = NoLocation \/ ~HasCoordinates(s) => isNearPosition(s)

\* the gate is evaluated with the operator's location known and far from the
\* longitude of a position that lacks its latitude
C13_Witness ==
    \E s \in Sessions :
        /\ GateEvaluated(s)
        /\ userLocation[s] # NoLocation
        /\ PositionData(s).latitude.null /\ ~PositionData(s).longitude.null
        /\ Abs(PositionData(s).longitude.value - userLocation[s].lng) > 18

\* C14: with the operator's location and both position coordinates present, the
\* gate answers true exactly when the distance is at most 200 m, also for a
\* latitude or longitude of 0.
C14_GateIffWithinThreshold ==
    \A s \in Sessions :
        userLocation[s] # NoLocation /\ HasCoordinates(s) =>
            (isNearPosition(s) <=>
                calculateDistance(userLocation[s].lat, userLocation[s].lng,
                                  PositionData(s).latitude.value,
                                  PositionData(s).longitude.value)
                    <= NearThreshold * 1000)

\* C15 as stated: whenever a volunteer is selected and nothing is loading, the
\* check-in action is enabled.
C15_EnabledWheneverSelected ==
    \A s \in Sessions :
        mounted[s] /\ selectedVolunteer[s] # NoSelection /\ View(s) # "Loading"
            => ENABLED Submit(s)

\* C15 amended: whenever the eligible list is shown, a volunteer is selected and
\* nothing is loading, the check-in action is enabled and sends the arrival
\* update, whether the gate says near or away and whether or not a location
\* was obtained.
C15_GateIsAdvisory ==
    \A s \in Sessions :
        View(s) = "AwaitingSelection" /\ selectedVolunteer[s] # NoSelection
            /\ ~isLoading[s]
            => ENABLED (Submit(s) /\ mutation'[s].st = "sent")

\* an arrival update is on its way from a page whose gate says away
C15_Witness ==
    \E s \in Sessions :
        /\ mutation[s].st = "sent"
        /\ userLocation[s] # NoLocation
        /\ ~isNearPosition(s)

\* C16: a session whose position id is absent is left at once and has issued
\* no position lookup, no volunteers fetch and no arrival update.
C16_NoRequestWithoutPositionId ==
    \A s \in Sessions :
        positionId[s] = NoPositionId =>
            /\ ~mounted[s]
            /\ posQuery[s] = IdleQuery
            /\ volQuery[s] = IdleVolunteers
            /\ mutation[s] = IdleMutation

\* the page was opened without a position id and has redirected
C16_Witness ==
    \E s \in Sessions :
        positionId[s] = NoPositionId /\ toast[s] = "invalid" /\ ~mounted[s]

\* C17: a position lookup that keeps failing is retried QueryRetry times at
\* most; after the last failed attempt the query is in error, no request is
\* outstanding, and the page shows the error as soon as nothing else loads.
C17_LookupRetriesBounded ==
    \A s \in Sessions :
        /\ posQuery[s].failureCount <= QueryRetry + 1
        /\ posQuery[s].status = "loading" =>
              posQuery[s].failureCount <= QueryRetry /\ posQuery[s].req = "sent"
        /\ posQuery[s].status = "error" <=> posQuery[s].failureCount = QueryRetry + 1
        /\ posQuery[s].status = "error" =>
              /\ posQuery[s].req = "none"
              /\ View(s) = IF QueryLoading(volQuery[s]) \/ isLoading[s]
                           THEN "Loading" ELSE "Error"

\* the lookup of an existing position has failed on every attempt and the page
\* shows the error
C17_Witness ==
    \E s \in Sessions :
        /\ positionId[s] \in PositionIds
        /\ posQuery[s].status = "error" /\ posQuery[s].error = "service"
        /\ posQuery[s].failureCount = QueryRetry + 1
        /\ View(s) = "Error"

\* C18: a position lookup that matches no row is not retried and ends in the
\* PositionNotFound view.
C18_NoRowIsTerminal ==
    \A s \in Sessions :
        posQuery[s].error = "no row" =>
            /\ posQuery[s].req = "none"
            /\ posQuery[s].failureCount <= 1
            /\ View(s) = IF QueryLoading(volQuery[s]) \/ isLoading[s]
                         THEN "Loading" ELSE "PositionNotFound"

\* C19: without a selected volunteer the check-in action is not enabled, and no
\* arrival update is ever sent without a signup id.
C19_NoSubmitWithoutSelection ==
    \A s \in Sessions :
        /\ selectedVolunteer[s] = NoSelection => ~ENABLED Submit(s)
        /\ mutation[s].st # "idle" => mutation[s].id # NoSelection

\* the list is shown with no volunteer selected, after a check-in cleared the
\* selection, and no update is on its way
C19_Witness ==
    \E s \in Sessions :
        /\ View(s) = "AwaitingSelection"
        /\ selectedVolunteer[s] = NoSelection
        /\ toast[s] = "success"
        /\ mutation[s] = IdleMutation

\* the arrival update of s fails in this step
Fails(s) == mounted'[s] /\ mutation[s].st = "sent" /\ mutation'[s].st = "idle"

C21_ArrivedStaysTrue ==
    [][\A i \in DOMAIN rows :
          rows[i].arrived => (i \in DOMAIN rows' /\ rows'[i].arrived)]_vars

\* a signup arrived in an earlier page load, a roster was imported, the check-in
\* page was opened again and a check-in failed, and the dashboard has ticked
C21_Witness ==
    \E s \in Sessions : \E x \in applied :
        /\ rows[x].arrived
        /\ x \notin succeeded[s]
        /\ mounted[s] /\ toast[s] = "error"
        /\ Len(rows) > 1
        /\ lastEvent = "tick"

\* the number of signups of position p with arrived = true
ArrivedCount(p) ==
    Cardinality({i \in DOMAIN rows : rows[i].position_id = p /\ rows[i].arrived})

\* C22: after creations, imports and check-ins, the filled count of every
\* position equals the number of its signups whose arrived flag is true.
C22_FilledCountsArrived ==
    \A p \in PositionIds : filled[p] = ArrivedCount(p)

\* the handler at place i of lookups gets its answer in this step
Answers(i) ==
    lookups' = [j \in 1..(Len(lookups) - 1) |->
                   IF j < i THEN lookups[j] ELSE lookups[j + 1]]

\* C23: once the issues effect has been cleaned up (the dashboard is left, or
\* the effect runs again), nothing that effect registered adds an issue: a
\* notification handler of the old subscription whose lookup was in flight at
\* the cleanup adds nothing when the lookup answers.
C23_NoAppendAfterTeardown ==
    [][\A i \in DOMAIN lookups :
          (lookups[i].setup # "live" /\ Answers(i)) => issues' = issues]_vars

\* C26: when a selection change has been processed (and when the page has been
\* opened), the eventId parameter equals the selection: the id of a selected
\* event, no parameter for no selection.
C26_ParameterFollowsSelection ==
    [][(dashMounted' /\ (~dashMounted \/ selectedEventId' # selectedEventId))
          => urlEventId' = selectedEventId']_vars

\* the selection went from an event to none in this page load (a handler
\* registered under the event still waits) and the parameter is cleared
C26_Witness ==
    /\ dashMounted
    /\ selectedEventId = NoEventId
    /\ urlEventId = NoEventId
    /\ \E i \in DOMAIN lookups :
          lookups[i].setup = "stale" /\ lookups[i].selectedEventId \in EventIds

\* C27: the binding works in both directions: whenever the eventId parameter
\* changes while the dashboard is mounted, the selection is the new parameter.
C27_SelectionFollowsParameter ==
    [][(dashMounted /\ dashMounted' /\ urlEventId' # urlEventId)
          => selectedEventId' = urlEventId']_vars

\* C29: every warning a staffing tick adds refers to a position of the set the
\* positions query has loaded for the selection of that moment: the query of
\* that selection holds data and the position belongs to it.
C29_WarningsOfCurrentSelection ==
    [][lastEvent' = "tick" =>
          \A k \in (Len(appended) + 1)..Len(appended') :
              /\ appended'[k].type = "warning"
              /\ selectedEventId \in loadedKeys
              /\ appended'[k].position.id \in PositionIds
              /\ InQuery(selectedEventId, appended'[k].position.id)]_vars

\* a tick under one event's selection has added a warning while the feed still
\* holds the warning of a tick under another event's selection
C29_Witness ==
    /\ lastEvent = "tick" /\ lastBatch > 0
    /\ selectedEventId \in EventIds
    /\ issues[1].position.event.id = selectedEventId
    /\ \E i \in DOMAIN issues :
          /\ issues[i].type = "warning"
          /\ issues[i].position.event.id # selectedEventId

ByStartThenId(table, pid) ==
    CHOOSE q \in SeqsOver(EligibleIds(table, pid)) :
        \A i, j \in DOMAIN q :
            i < j => \/ table[q[i]].start_time < table[q[j]].start_time
                     \/ /\ table[q[i]].start_time = table[q[j]].start_time
                        /\ q[i] < q[j]

\* C28: an eligible-volunteers fetch returns exactly the signups of the position
\* with arrived = false at the fetch, ascending by start time and, for equal
\* start times, by id (insertion order): the sequence is a function of the
\* store, so two fetches over the same store return the same sequence.
C28_FetchOrderDeterministic ==
    [][\A s \in Sessions :
          Fetches(s) => volQuery'[s].result = ByStartThenId(rows, positionId[s])]_vars

\* the page of s has left its loading state without a location
ProceedsWithoutLocation(s) ==
    /\ ~isLoading[s]
    /\ userLocation[s] = NoLocation
    /\ View(s) \in {"AwaitingSelection", "NoEligibleVolunteers",
                    "PositionNotFound", "Error"}

\* both queries of s hold data and the list is not empty
ListReady(s) ==
    /\ mounted[s] /\ geo[s] = "settled"
    /\ posQuery[s].status = "success"
    /\ volQuery[s].status = "success" /\ volQuery[s].data # <<>>

\* C25: a location that cannot be obtained never blocks the check-in: when
\* geolocation is unsupported, rejected or times out, a page that stays open
\* eventually leaves its loading state without a location, and whenever its
\* position and a non-empty list are loaded it shows the selection.
C25_LocationNeverBlocks ==
    \A s \in Sessions :
        /\ [](mounted[s] => <>(~mounted[s] \/ ProceedsWithoutLocation(s)))
        /\ [](ListReady(s) =>
                 View(s) = "AwaitingSelection" /\ userLocation[s] = NoLocation)

\* no location was obtained (unsupported, or the error callback ran) and the
\* page shows the selection, where a volunteer has been selected
C25_Witness ==
    \E s \in Sessions :
        /\ View(s) = "AwaitingSelection"
        /\ geo[s] = "settled" /\ locationError[s]
        /\ userLocation[s] = NoLocation
        /\ selectedVolunteer[s] # NoSelection

\* what a page for the position of s shows of its queries and toasts
Shows(s) ==
    <<posQuery[s].status, posQuery[s].loaded, volQuery[s].status,
      volQuery[s].data, toast[s]>>

\* C24: once the check-in page has been left, no late response (a lookup or a
\* fetch answering, a geolocation callback, an arrival update completing)
\* changes what the session holds: the query results, the toast, the location,
\* the selection and the loading flag stay as they were at the leave.
C24_NoLateResponseAfterLeave ==
    [][\A s \in Sessions :
          (~mounted[s] /\ ~mounted'[s]) =>
              /\ Shows(s)' = Shows(s)
              /\ UNCHANGED <<userLocation, locationError, selectedVolunteer,
                             isLoading>>]_vars

\* the page of s is reloaded or closed in this step
Restarts(s) ==
    mounted[s] /\ ~mounted'[s]

\* C31: a check-in page can be reloaded in every state it is in, a submission
\* in flight included; the reload changes no arrived flag, and every fetch
\* evaluated afterwards returns exactly the signups of the position whose
\* stored arrived flag is false at that time.
C31_RestartLosesNothing ==
    /\ [](\A s \in Sessions : mounted[s] => ENABLED Leave(s))
    /\ [][\A s \in Sessions :
            /\ Restarts(s) => rows' = rows /\ applied' = applied
            /\ Fetches(s) =>
                  Range(volQuery'[s].result) =
                      {i \in SignupIds : /\ rows[i].position_id = positionId[s]
                                        /\ ~rows[i].arrived}]_vars

\* the signup stored from the start has arrived through a page left earlier or
\* another device, and a page load that has sent no update of its own holds
\* the evaluated fetch of that position: evaluated after the arrival, it lists
\* the other signup and not the arrived one
C31_Witness ==
    \E s \in Sessions :
        /\ mounted[s] /\ toast[s] = "none" /\ mutation[s].st = "idle"
        /\ succeeded[s] = {}
        /\ 1 \in applied /\ rows[1].position_id = positionId[s]
        /\ volQuery[s].req = "ok" /\ ~volQuery[s].loaded
        /\ volQuery[s].result # <<>>
        /\ 1 \notin Range(volQuery[s].result)

\* A and B lie on one meridian or both on the equator
OnOneArc(A, B) ==
    A.lng = B.lng \/ (A.lat = 0 /\ B.lat = 0)

C33_SubmitTargetsLoadedList ==
    [][\A s \in Sessions :
          Submits(s) => mutation'[s].id \in Range(volQuery[s].data)]_vars

C36_UpdateOnlyAfterLookup ==
    \A s \in Sessions :
        /\ mutation[s].st # "idle" =>
              posQuery[s].status = "success" /\ posQuery[s].loaded
        /\ mounted[s] /\ ~posQuery[s].loaded => ~ENABLED Submit(s)

\* the position lookup has failed after its retries while the volunteers
\* fetch has delivered a list that is not empty
C36_Witness ==
    \E s \in Sessions :
        /\ mounted[s] /\ posQuery[s].status = "error"
        /\ volQuery[s].loaded /\ volQuery[s].data # <<>>
        /\ ~isLoading[s]

\* the positions query of the current selection holds position p understaffed
LoadedUnderstaffed(p) ==
    /\ dashMounted
    /\ \E i \in DOMAIN Positions.rows :
          Positions.rows[i].id = p /\ Understaffed(Positions.rows[i])

\* the last step was a firing of the interval that added a warning about p
WarnedNow(p) ==
    /\ lastEvent = "tick"
    /\ \E i \in 1..lastBatch : issues[i].type = "warning" /\ issues[i].about = p

\* the warnings counted in this run leave no room for those of another firing
TimerRunEnds == Len(appended) + Len(PositionOrder) > MaxTimerIssues

\* C34: while the dashboard stays open and a loaded position stays
\* understaffed, a warning about it is eventually added to the feed, however
\* often the selection changes or a positions query delivers.
C34_WarningEventually ==
    \A p \in PositionIds :
        LoadedUnderstaffed(p) ~>
            (~LoadedUnderstaffed(p) \/ WarnedNow(p) \/ TimerRunEnds)

\* C37: an open dashboard holds exactly one staffing interval and one signup
\* subscription and a closed one none, through every re-run of the effect; a
\* firing of the interval adds at most one warning about a position.
C37_OneTimerOneSubscription ==
    /\ [](IF dashMounted
          THEN Len(registered.intervals) = 1 /\ registered.channels = 1
          ELSE registered = NoSetup)
    /\ [][lastEvent' = "tick" =>
            \A i, j \in 1..lastBatch' :
                issues'[i].about = issues'[j].about => i = j]_vars

\* the interval started by a re-run of the effect, after the selection changed,
\* has fired and added warnings about two positions
C37_Witness ==
    /\ dashMounted /\ lastEvent = "tick" /\ lastBatch = 2
    /\ selectedEventId = NoEventId /\ Cardinality(loadedKeys) > 1
    /\ Len(registered.intervals) = 1

\* a handler that adds its issue if its lookup delivers the row
WouldAdd(h) ==
    /\ h.setup # "gone"
    /\ h.position_id \in PositionIds
    /\ \/ h.selectedEventId = NoEventId
       \/ LookupEventId(LookupRow(h.position_id)) = h.selectedEventId

C39_OnlyInsertsProduceEntries ==
    [][lastEvent' \in {"UPDATE", "DELETE"} =>
          /\ issues' = issues /\ appended' = appended
          /\ lookups' = lookups]_vars

\* an UPDATE notification has been handled while the feed holds an info issue
\* and the handler of an insertion awaits its lookup
C39_Witness ==
    /\ dashMounted /\ lastEvent = "UPDATE"
    /\ Len(issues) > 0 /\ issues[1].type = "info"
    /\ Len(lookups) > 0
====
